---- MODULE Spec2Model ----
(***************************************************************************)
(* Model of the observation validation and enrichment pipeline of the      *)
(* SCORE repository (repository/utils.py): add_additional_data and         *)
(* validate_position, with the two remote SatChecker endpoints (ephemeris  *)
(* by catalog number, names by NORAD id) as the environment.               *)
(*                                                                         *)
(* Python values are modelled as tagged records so that values of          *)
(* different Python types can be compared: None, strings, date strings,    *)
(* numbers (integer part n plus f billionths, n + f / 10^9) and booleans.  *)
(* Times are whole days on the Modified Julian Date scale.                 *)
(***************************************************************************)
EXTENDS Integers, Sequences, FiniteSets, TLC

----------------------------------------------------------------------------
(* Bounds of the model *)

\* number of invocations of add_additional_data in one behaviour
MaxInvocations == 2
\* largest number of records in the answer of the name lookup
MaxItems == 2

\* the most rows of the Observation table
MaxObservations == 2

\* the most ids in one list of a confirmation email
MaxIds == 2

\* the most lines of an uploaded file
MaxLines == 2

\* the most tasks in the queue
MaxTasks == 2

----------------------------------------------------------------------------
(* Program constants *)

\* Time("2024-05-01T00:00:00.000") as a Modified Julian Date
CutoffDay == 60431
\* (tle_date - obs_time).jd > 14
ArchivalDays == 14
\* float(satellite_info[9]) < -5
HorizonDeg == -5
\* round(..., 7)
RoundDigits == 7
\* status_code != 200
StatusOK == 200
\* satellite_info[0], satellite_info[6], satellite_info[9] (1-based here)
NameIdx == 1
TleIdx == 7
AltIdx == 10
\* billionths in one unit: the resolution of the modelled numbers
Billion == 1000000000

\* the main page shows the 7 latest observations
LatestCount == 7

----------------------------------------------------------------------------
(* Python values *)

NoneV == [k |-> "null", s |-> "", n |-> 0, f |-> 0]
Str(x) == [k |-> "str", s |-> x, n |-> 0, f |-> 0]
\* a string holding a parseable timestamp of day d ("<ISO date>" or
\* "<ISO date> UTC")
Date(d) == [k |-> "date", s |-> "", n |-> d, f |-> 0]
Num(i, fr) == [k |-> "num", s |-> "", n |-> i, f |-> fr]
BoolV(b) == [k |-> "bool", s |-> "", n |-> IF b THEN 1 ELSE 0, f |-> 0]

\* Python truthiness: `not x` is Falsy(x)
Falsy(v) ==
    \/ v.k = "null"
    \/ v.k = "str" /\ v.s = ""
    \/ v.k = "num" /\ v.n = 0 /\ v.f = 0
    \/ v.k = "bool" /\ v.n = 0

\* lo <= v <= hi for a number v and whole bounds lo, hi
InClosedRange(v, lo, hi) ==
    /\ v.k \in {"num", "bool"}
    /\ lo <= v.n
    /\ \/ v.n < hi
       \/ v.n = hi /\ v.f = 0

\* v < bound for a number v and a whole bound
LessThanWhole(v, bound) == v.n < bound

\* Round7 cutting the digits after the seventh instead of rounding
Round7Truncate(v) == Num(v.n, (v.f \div 100) * 100)

\* round(v, 7) of a number: nearest multiple of 10^-7; a decimal tie goes to
\* the even neighbour (n is the floor of the value, so this also holds for
\* negative values)
Round7(v) ==
    LET q == v.f \div 100
        rem == v.f % 100
        up == rem > 50 \/ (rem = 50 /\ q % 2 = 1)
        q2 == IF up THEN q + 1 ELSE q
    IN  IF q2 * 100 = Billion THEN Num(v.n + 1, 0) ELSE Num(v.n, q2 * 100)

----------------------------------------------------------------------------
(* Messages of the pipeline *)

MsgIncomplete == "Satellite position check failed - check your data. Missing or incorrect fields: "
MsgTryLater == "Satellite position check failed - try again later."
MsgVerify == "Satellite position check failed - verify uploaded data is correct."
MsgNotVisible == "Satellite with this ID not visible at this time and location"
MsgArchival == "archival data"
MsgNameMismatch == "Satellite name and number do not match"
MsgBelowHorizon == "Satellite below horizon at this time and location"
MsgNameNotFound == "Satellite name not found"

----------------------------------------------------------------------------
(* SatCheckerData *)

NumericFields == {"phase_angle", "range_to_sat", "range_rate", "alt_deg",
                  "az_deg", "ddec_deg_s", "dra_cosdec_deg_s", "sat_dec_deg",
                  "sat_ra_deg"}
NullableFields == {"illuminated", "satellite_name", "intl_designator"}
SatCheckerData == NumericFields \cup NullableFields

\* the key of the response each enriched field is read from
SourceKey(field) ==
    CASE field = "phase_angle" -> "phase_angle_deg"
      [] field = "range_to_sat" -> "range_km"
      [] field = "range_rate" -> "range_rate_km_per_sec"
      [] field = "illuminated" -> "illuminated"
      [] field = "alt_deg" -> "altitude_deg"
      [] field = "az_deg" -> "azimuth_deg"
      [] field = "ddec_deg_s" -> "ddec_deg_per_sec"
      [] field = "dra_cosdec_deg_s" -> "dra_cosdec_deg_per_sec"
      [] field = "sat_dec_deg" -> "declination_deg"
      [] field = "sat_ra_deg" -> "right_ascension_deg"
      [] field = "satellite_name" -> "name"
      [] field = "intl_designator" -> "international_designator"

NoData == [x \in SatCheckerData |-> NoneV]

----------------------------------------------------------------------------
(* Values a function returns, or the exception that leaves it *)

RetNone == [kind |-> "none", s |-> "", missing |-> <<>>, b |-> FALSE, data |-> NoData]
RetStr(m) == [kind |-> "str", s |-> m, missing |-> <<>>, b |-> FALSE, data |-> NoData]
RetIncomplete(mf) == [kind |-> "str", s |-> MsgIncomplete, missing |-> mf, b |-> FALSE, data |-> NoData]
RetBool(x) == [kind |-> "bool", s |-> "", missing |-> <<>>, b |-> x, data |-> NoData]
RetData(d) == [kind |-> "data", s |-> "", missing |-> <<>>, b |-> FALSE, data |-> d]
RetRaise(e) == [kind |-> "raise", s |-> e, missing |-> <<>>, b |-> FALSE, data |-> NoData]

----------------------------------------------------------------------------
(* The input check of add_additional_data *)

Request(name, number, time, lat, long, alt) ==
    [satellite_name |-> name, sat_number |-> number, observation_time |-> time,
     latitude |-> lat, longitude |-> long, altitude |-> alt]

\* MissingFields with the range test of the longitude left out
MissingFieldsNoLongitudeRange(q) ==
    (IF Falsy(q.sat_number) THEN <<"sat_number">> ELSE <<>>)
    \o (IF Falsy(q.observation_time) THEN <<"observation_time">> ELSE <<>>)
    \o (IF Falsy(q.latitude) \/ ~InClosedRange(q.latitude, -90, 90)
        THEN <<"latitude">> ELSE <<>>)
    \o (IF Falsy(q.longitude) THEN <<"longitude">> ELSE <<>>)
    \o (IF q.altitude.k = "null" THEN <<"altitude">> ELSE <<>>)

\* MissingFields with the longitude test placed before the latitude test
MissingFieldsLongitudeFirst(q) ==
    (IF Falsy(q.sat_number) THEN <<"sat_number">> ELSE <<>>)
    \o (IF Falsy(q.observation_time) THEN <<"observation_time">> ELSE <<>>)
    \o (IF Falsy(q.longitude) \/ ~InClosedRange(q.longitude, -180, 180)
        THEN <<"longitude">> ELSE <<>>)
    \o (IF Falsy(q.latitude) \/ ~InClosedRange(q.latitude, -90, 90)
        THEN <<"latitude">> ELSE <<>>)
    \o (IF q.altitude.k = "null" THEN <<"altitude">> ELSE <<>>)

\* missing_fields, in the order the checks append to it
MissingFields(q) ==
    (IF Falsy(q.sat_number) THEN <<"sat_number">> ELSE <<>>)
    \o (IF Falsy(q.observation_time) THEN <<"observation_time">> ELSE <<>>)
    \o (IF Falsy(q.latitude) \/ ~InClosedRange(q.latitude, -90, 90)
        THEN <<"latitude">> ELSE <<>>)
    \o (IF Falsy(q.longitude) \/ ~InClosedRange(q.longitude, -180, 180)
        THEN <<"longitude">> ELSE <<>>)
    \o (IF q.altitude.k = "null" THEN <<"altitude">> ELSE <<>>)

\* Time(observation_time, format="isot", scale="utc") succeeds
TimeParses(v) == v.k = "date"

----------------------------------------------------------------------------
(* Responses of the ephemeris endpoint *)

\* json: the body parses as a JSON object; keys: the keys of that object
EphemerisResponse(status, json, keys, data, fields) ==
    [status_code |-> status, json |-> json, keys |-> keys, data |-> data,
     fields |-> fields]

NoResponse == EphemerisResponse(0, FALSE, {}, <<>>, <<>>)

\* response_data.get("data") is truthy
HasRecords(resp) == "data" \in resp.keys /\ resp.data # <<>>

----------------------------------------------------------------------------
(* validate_position *)

\* (tle_date - obs_time).jd > 14
IsArchival(tleDay, obsDay) == tleDay - obsDay > ArchivalDays

\* float(satellite_info[9]) < -5
BelowHorizon(alt) == LessThanWhole(alt, HorizonDeg)

\* ValidateRecord with the name check moved before the archival check
ValidateRecordNameFirst(satellite_info, satellite_name, obs_time) ==
    IF Len(satellite_info) < TleIdx THEN RetRaise("IndexError")
    ELSE IF satellite_info[TleIdx].k \notin {"str", "date"} THEN RetRaise("AttributeError")
    ELSE IF satellite_info[TleIdx].k # "date" THEN RetRaise("ValueError")
    ELSE IF ~Falsy(satellite_name) /\ satellite_info[NameIdx] # satellite_name
         THEN RetStr(MsgNameMismatch)
    ELSE IF IsArchival(satellite_info[TleIdx].n, obs_time.n) THEN RetStr(MsgArchival)
    ELSE IF Len(satellite_info) < AltIdx THEN RetRaise("IndexError")
    ELSE IF satellite_info[AltIdx].k = "null" THEN RetRaise("TypeError")
    ELSE IF satellite_info[AltIdx].k \notin {"num", "bool"} THEN RetRaise("ValueError")
    ELSE IF BelowHorizon(satellite_info[AltIdx]) THEN RetStr(MsgBelowHorizon)
    ELSE RetBool(TRUE)

\* ValidateRecord with the horizon check moved before the name check
ValidateRecordHorizonFirst(satellite_info, satellite_name, obs_time) ==
    IF Len(satellite_info) < TleIdx THEN RetRaise("IndexError")
    ELSE IF satellite_info[TleIdx].k \notin {"str", "date"} THEN RetRaise("AttributeError")
    ELSE IF satellite_info[TleIdx].k # "date" THEN RetRaise("ValueError")
    ELSE IF IsArchival(satellite_info[TleIdx].n, obs_time.n) THEN RetStr(MsgArchival)
    ELSE IF Len(satellite_info) < AltIdx THEN RetRaise("IndexError")
    ELSE IF satellite_info[AltIdx].k = "null" THEN RetRaise("TypeError")
    ELSE IF satellite_info[AltIdx].k \notin {"num", "bool"} THEN RetRaise("ValueError")
    ELSE IF BelowHorizon(satellite_info[AltIdx]) THEN RetStr(MsgBelowHorizon)
    ELSE IF ~Falsy(satellite_name) /\ satellite_info[NameIdx] # satellite_name
         THEN RetStr(MsgNameMismatch)
    ELSE RetBool(TRUE)

\* the part of validate_position after satellite_info = response_data["data"][0]
ValidateRecord(satellite_info, satellite_name, obs_time) ==
    IF Len(satellite_info) < TleIdx THEN RetRaise("IndexError")
    ELSE IF satellite_info[TleIdx].k \notin {"str", "date"} THEN RetRaise("AttributeError")
    ELSE IF satellite_info[TleIdx].k # "date" THEN RetRaise("ValueError")
    ELSE IF IsArchival(satellite_info[TleIdx].n, obs_time.n) THEN RetStr(MsgArchival)
    ELSE IF ~Falsy(satellite_name) /\ satellite_info[NameIdx] # satellite_name
         THEN RetStr(MsgNameMismatch)
    ELSE IF Len(satellite_info) < AltIdx THEN RetRaise("IndexError")
    ELSE IF satellite_info[AltIdx].k = "null" THEN RetRaise("TypeError")
    ELSE IF satellite_info[AltIdx].k \notin {"num", "bool"} THEN RetRaise("ValueError")
    ELSE IF BelowHorizon(satellite_info[AltIdx]) THEN RetStr(MsgBelowHorizon)
    ELSE RetBool(TRUE)

\* validate_position without the test for an empty list of records
validate_positionNoEmptyTest(response, satellite_name, obs_time) ==
    IF response.status_code # StatusOK THEN RetStr(MsgVerify)
    ELSE IF ~response.json THEN RetRaise("JSONDecodeError")
    ELSE IF "data" \notin response.keys THEN RetRaise("KeyError")
    ELSE IF response.data = <<>> THEN RetRaise("IndexError")
    ELSE ValidateRecord(response.data[1], satellite_name, obs_time)

validate_position(response, satellite_name, obs_time) ==
    IF response.status_code # StatusOK THEN RetStr(MsgVerify)
    ELSE IF ~response.json THEN RetRaise("JSONDecodeError")
    ELSE IF ~HasRecords(response) THEN RetStr(MsgNotVisible)
    ELSE ValidateRecord(response.data[1], satellite_name, obs_time)

----------------------------------------------------------------------------
(* The name-resolution fallback *)

\* FallbackTriggered with <= in place of <
FallbackTriggeredInclusive(obs_time, is_valid) ==
    /\ obs_time.n <= CutoffDay
    /\ ~(is_valid.kind = "str" /\ is_valid.s = MsgArchival)

\* obs_time < Time("2024-05-01T00:00:00.000") and not is_valid == "archival data"
FallbackTriggered(obs_time, is_valid) ==
    /\ obs_time.n < CutoffDay
    /\ ~(is_valid.kind = "str" /\ is_valid.s = MsgArchival)

\* kind: "bad" (the body is not JSON), "null" (JSON null) or "list";
\* an item of the list is an empty list or an object
NamesResponse(status, kind, items) ==
    [status_code |-> status, kind |-> kind, items |-> items]

NoNames == NamesResponse(0, "null", <<>>)

NameItem(isobj, hasname, name) == [isobj |-> isobj, hasname |-> hasname, name |-> name]

\* ItemMatches reading a key the records do not have
ItemMatchesWrongKey(item, satellite_name) == NoneV = satellite_name

\* item.get("name") == satellite_name
ItemMatches(item, satellite_name) ==
    (IF item.hasname THEN item.name ELSE NoneV) = satellite_name

\* any(item.get("name") == satellite_name for item in response_json):
\* "found", "notfound", or "raise" when an item that is not an object is
\* reached before a match
RECURSIVE AnyNameMatches(_, _, _)
AnyNameMatches(items, i, satellite_name) ==
    IF i > Len(items) THEN "notfound"
    ELSE IF ~items[i].isobj THEN "raise"
    ELSE IF ItemMatches(items[i], satellite_name) THEN "found"
    ELSE AnyNameMatches(items, i + 1, satellite_name)

\* LookupResult taking any non-empty answer as a match
LookupResultAnyRecord(response, satellite_name) ==
    IF response.status_code # StatusOK THEN "escape"
    ELSE IF response.kind = "bad" THEN "error"
    ELSE IF response.kind = "null" \/ response.items = <<>> THEN "escape"
    ELSE IF ~response.items[1].isobj THEN "escape"
    ELSE "found"

\* the try block of the fallback: "escape" (an exception that is not a
\* RequestException leaves the function), "error" (a RequestException was
\* caught and error is set), "found" or "notfound".  The Exception raised at
\* lines 197 and 201 wraps a RequestException but is not one, so the except
\* clause of line 206 lets it pass.  A body that is not JSON makes
\* response.json() raise requests' JSONDecodeError, a RequestException.
LookupResult(response, satellite_name) ==
    IF response.status_code # StatusOK THEN "escape"
    ELSE IF response.kind = "bad" THEN "error"
    ELSE IF response.kind = "null" \/ response.items = <<>> THEN "escape"
    ELSE IF ~response.items[1].isobj THEN "escape"
    ELSE IF AnyNameMatches(response.items, 1, satellite_name) = "raise" THEN "escape"
    ELSE AnyNameMatches(response.items, 1, satellite_name)

----------------------------------------------------------------------------
(* The enrichment mapper *)

Min(a, b) == IF a < b THEN a ELSE b

\* the order of the values of one position record of the ephemeris service
RecordFields ==
    <<"name", "catalog_id", "julian_date", "satellite_gcrs_km",
      "right_ascension_deg", "declination_deg", "tle_date",
      "dra_cosdec_deg_per_sec", "ddec_deg_per_sec", "altitude_deg",
      "azimuth_deg", "range_km", "range_rate_km_per_sec", "phase_angle_deg",
      "illuminated", "international_designator">>

\* KeyIndex reading the value at the position the key has in the usual order
KeyIndexPositional(fields, satellite_data, key) ==
    LET hits == {i \in 1..Min(Len(RecordFields), Len(satellite_data)) : RecordFields[i] = key}
    IN  IF hits = {} THEN 0 ELSE CHOOSE i \in hits : \A j \in hits : j <= i

\* data_dict = dict(zip(fields, satellite_data)): the position of key, the
\* last one when it is repeated, 0 when it is absent
KeyIndex(fields, satellite_data, key) ==
    LET hits == {i \in 1..Min(Len(fields), Len(satellite_data)) : fields[i] = key}
    IN  IF hits = {} THEN 0 ELSE CHOOSE i \in hits : \A j \in hits : j <= i

\* data_dict.get(key, default)
DictGet(fields, satellite_data, key, default) ==
    IF KeyIndex(fields, satellite_data, key) = 0 THEN default
    ELSE satellite_data[KeyIndex(fields, satellite_data, key)]

\* round(x, 7) raises TypeError unless x is a number
Roundable(v) == v.k \in {"num", "bool"}

EnrichedValue(fields, satellite_data, field) ==
    IF field \in NumericFields
    THEN Round7(DictGet(fields, satellite_data, SourceKey(field), Num(0, 0)))
    ELSE DictGet(fields, satellite_data, SourceKey(field), NoneV)

\* lines 232-254: is_valid is a boolean here
Enrich(is_valid, r) ==
    IF ~is_valid.b THEN RetBool(is_valid.b)
    ELSE IF ~r.json THEN RetRaise("JSONDecodeError")
    ELSE IF r.keys = {} THEN RetBool(is_valid.b)
    ELSE IF "data" \notin r.keys THEN RetRaise("KeyError")
    ELSE IF r.data = <<>> THEN RetRaise("IndexError")
    ELSE LET flds == IF "fields" \in r.keys THEN r.fields ELSE <<>>
         IN  IF \E x \in NumericFields :
                   ~Roundable(DictGet(flds, r.data[1], SourceKey(x), Num(0, 0)))
             THEN RetRaise("TypeError")
             ELSE RetData([x \in SatCheckerData |-> EnrichedValue(flds, r.data[1], x)])

\* SatCheckerData(None, ..., satellite_name, None)
ArchivalData(satellite_name) == [NoData EXCEPT !["satellite_name"] = satellite_name]

\* lines 214-254: the value add_additional_data returns for is_valid
\* Finish with the archival outcome enriched from the payload like a valid one
FinishEnrichArchival(is_valid, r, satellite_name) ==
    IF is_valid.kind = "str"
    THEN IF is_valid.s = MsgArchival THEN Enrich(RetBool(TRUE), r)
         ELSE is_valid
    ELSE Enrich(is_valid, r)

Finish(is_valid, r, satellite_name) ==
    IF is_valid.kind = "str"
    THEN IF is_valid.s = MsgArchival THEN RetData(ArchivalData(satellite_name))
         ELSE is_valid
    ELSE Enrich(is_valid, r)

----------------------------------------------------------------------------
(* Inputs of the model *)

Names == {Str(""), Str("ISS"), Str("ZARYA")}
Numbers == {NoneV, Num(0, 0), Num(25544, 0)}
Times == {NoneV, Str("yesterday"), Date(CutoffDay - 1), Date(CutoffDay)}
Latitudes == {NoneV, Num(-91, 0), Num(-90, 0), Num(0, 0), Num(90, 0), Num(90, 1)}
Longitudes == {NoneV, Num(-181, 0), Num(-180, 0), Num(0, 0), Num(180, 0), Num(180, 1)}
Altitudes == {NoneV, Num(0, 0), Num(1000, 0)}

Requests ==
    {Request(a, b, c, d, e, g) : a \in Names, b \in Numbers, c \in Times,
                                 d \in Latitudes, e \in Longitudes, g \in Altitudes}

PositionRecord(name, tle, alt) ==
    <<name, Num(25544, 0), Num(60430, 0), NoneV, Num(120, 250000000),
      Num(-34, 999999950), Date(tle), Num(0, 1234), Num(0, 5678), alt,
      Num(270, 0), Num(420, 123456789), Num(-7, 500000000), Num(12, 345678912),
      BoolV(TRUE), Str("1998-067A")>>

RecordNames == {Str("ISS"), Str("ZARYA")}
TleDays == {CutoffDay - 16, CutoffDay + 13, CutoffDay + 14, CutoffDay + 15}
RecordAltitudes == {Num(-6, 500000000), Num(-5, 0), Num(45, 0)}

PositionRecords ==
    {PositionRecord(a, b, c) : a \in RecordNames, b \in TleDays, c \in RecordAltitudes}

\* the same record in other shapes the mapper has to cope with
SwapAltAz(s) == [s EXCEPT ![10] = s[11], ![11] = s[10]]
VariantTleDay == CutoffDay + 13
VariantRecords ==
    {PositionRecord(a, VariantTleDay, c) : a \in RecordNames, c \in RecordAltitudes}

EphemerisVariants ==
    \* altitude and azimuth arrive in the other order
    {EphemerisResponse(StatusOK, TRUE, {"data", "fields"}, <<SwapAltAz(x)>>,
                       SwapAltAz(RecordFields)) : x \in VariantRecords}
    \* the name arrives under an unknown key and the fields after the
    \* altitude are not listed
    \cup {EphemerisResponse(StatusOK, TRUE, {"data", "fields"}, <<x>>,
                             <<"satellite">> \o SubSeq(RecordFields, 2, 10)) :
              x \in VariantRecords}
    \* an unknown field follows the known ones
    \cup {EphemerisResponse(StatusOK, TRUE, {"data", "fields"},
                             <<Append(x, Str("celestrak"))>>,
                             Append(RecordFields, "data_source")) :
              x \in VariantRecords}
    \* the response has no fields key
    \cup {EphemerisResponse(StatusOK, TRUE, {"data"}, <<x>>, <<>>) :
              x \in VariantRecords}

EphemerisResponses ==
    EphemerisVariants \cup
    {EphemerisResponse(500, FALSE, {}, <<>>, <<>>),
     EphemerisResponse(500, TRUE, {}, <<>>, <<>>),
     EphemerisResponse(404, TRUE, {"message"}, <<>>, <<>>),
     EphemerisResponse(StatusOK, FALSE, {}, <<>>, <<>>),
     EphemerisResponse(StatusOK, TRUE, {}, <<>>, <<>>),
     EphemerisResponse(StatusOK, TRUE, {"data", "fields"}, <<>>, RecordFields)}
    \cup {EphemerisResponse(StatusOK, TRUE, {"data", "fields"}, <<x>>, RecordFields) :
             x \in PositionRecords}

NameItems ==
    {NameItem(TRUE, TRUE, Str("ISS")), NameItem(TRUE, TRUE, Str("ZARYA")),
     NameItem(TRUE, FALSE, NoneV)}

\* the lists of 1..n objects
RECURSIVE ItemLists(_)
ItemLists(n) ==
    IF n = 0 THEN {}
    ELSE {<<x>> : x \in NameItems}
         \cup ItemLists(n - 1)
         \cup {Append(l, x) : l \in ItemLists(n - 1), x \in NameItems}

NamesResponses ==
    {NamesResponse(404, "null", <<>>),
     NamesResponse(StatusOK, "bad", <<>>),
     NamesResponse(StatusOK, "null", <<>>),
     NamesResponse(StatusOK, "list", <<>>),
     NamesResponse(StatusOK, "list", <<NameItem(FALSE, FALSE, NoneV)>>)}
    \cup {NamesResponse(StatusOK, "list", l) : l \in ItemLists(MaxItems)}

----------------------------------------------------------------------------
(* The state of one invocation of add_additional_data and of the stub      *)
(* client that serves its outbound calls                                   *)

VARIABLES
    pc,        \* "idle", "ephemeris" (waiting for requests.get, line 175),
               \* "names" (waiting for requests.get, line 194) or "done"
    req,       \* the arguments of the invocation
    r,         \* the ephemeris response
    is_valid,  \* the local is_valid
    response,  \* the response of the name lookup
    ret,       \* what the invocation returned or raised
    calls,     \* the outbound calls of this invocation, in order
    inv,       \* the number of the invocation
    looked,    \* the catalog numbers looked up by earlier invocations
    results,   \* the outcomes the batch has recorded, one entry per row
    satellites,    \* the Satellite table
    observations,  \* the Observation table, in the order of the ids
    stats,     \* what the last call of get_stats returned or raised
    listing,   \* the last call of get_observation_list and its text
    lookup,    \* the last call of get_satellite_name or get_norad_id
    export,  \* the last call of create_csv: its arguments, the lines and the archive name
    form,  \* the last call of SingleObservationForm.clean: cleaned_data and the errors
    page,  \* the last request to the index view and its response
    queue,  \* the ProcessUpload tasks enqueued so far, each with its rows
    uploaded,  \* the last request to the upload view and what became of it
    satellite_rows,  \* the Satellite table as the upload view writes it
    location_rows,  \* the Location table as the upload view writes it
    observation_rows   \* the Observation table as the upload view writes it

\* the state of the pipeline and of the batch that drives it
pipelineVars == <<pc, req, r, is_valid, response, ret, calls, inv, looked, results>>

\* the database and the results of the functions that read it
dbVars == <<satellites, observations, stats, listing>>

\* the results of the other helper functions and views
toolVars == <<lookup, export, form, page, queue, uploaded, satellite_rows, location_rows, observation_rows>>

vars == <<pc, req, r, is_valid, response, ret, calls, inv, looked, results,
          satellites, observations, stats, listing, lookup, export, form, page, queue, uploaded, satellite_rows, location_rows, observation_rows>>

\* nothing returned yet
NoStats == [kind |-> "none", values |-> <<>>]
NoListing == [called |-> FALSE, is_html |-> FALSE, obs_ids |-> <<>>, text |-> ""]
NoLookup == [fn |-> "", raised |-> FALSE, status_code |-> 0, kind |-> "null",
             items |-> <<>>, result |-> [k |-> "null", s |-> "", n |-> 0, f |-> 0]]

NoExport == [called |-> FALSE, observation_list |-> <<>>, satellite_name |-> "",
             lines |-> <<>>, zipfile_name |-> ""]

NoClean == [called |-> FALSE, errors |-> {},
            cleaned_data |-> [k \in {"range_to_sat_km", "range_to_sat_uncert_km",
                                     "range_rate_sat_km_s", "range_rate_sat_uncert_km_s",
                                     "observer_email"} |->
                                 [k |-> "null", s |-> "", n |-> 0, f |-> 0]]]

NoPage == [called |-> FALSE, method |-> "", has_file |-> FALSE, decodes |-> FALSE,
           lines |-> <<>>, error |-> "", outcome |-> "", queued_before |-> 0]

NoUpload == [called |-> FALSE, method |-> "", valid |-> FALSE, outcome |-> "",
             sat_name |-> "", sat_number |-> [k |-> "null", s |-> "", n |-> 0, f |-> 0],
             lat |-> [k |-> "null", s |-> "", n |-> 0, f |-> 0],
             long |-> [k |-> "null", s |-> "", n |-> 0, f |-> 0],
             alt |-> [k |-> "null", s |-> "", n |-> 0, f |-> 0],
             repeated |-> FALSE, rows_before |-> <<0, 0, 0>>]

\* no helper function or view has been called
ToolsIdle ==
    /\ lookup = NoLookup
    /\ export = NoExport
    /\ form = NoClean
    /\ page = NoPage
    /\ queue = <<>>
    /\ uploaded = NoUpload
    /\ satellite_rows = <<>>
    /\ location_rows = <<>>
    /\ observation_rows = <<>>

NoRequest == Request(NoneV, NoneV, NoneV, NoneV, NoneV, NoneV)

OutboundCall(endpoint, id, result) == [endpoint |-> endpoint, id |-> id, result |-> result]

\* the last call of the log gets its result
Answered(log, result) == [log EXCEPT ![Len(log)].result = result]

PipelineInit ==
    /\ pc = "idle"
    /\ req = NoRequest
    /\ r = NoResponse
    /\ is_valid = RetNone
    /\ response = NoNames
    /\ ret = RetNone
    /\ calls = <<>>
    /\ inv = 1
    /\ looked = {}
    /\ results = <<>>

Init ==
    /\ PipelineInit
    /\ satellites = {}
    /\ observations = <<>>
    /\ stats = NoStats
    /\ listing = NoListing
    /\ ToolsIdle

\* lines 145-175: the input check, and the ephemeris query when it passes
Call ==
    /\ pc = "idle"
    /\ \E q \in Requests :
        /\ req' = q
        /\ IF MissingFields(q) # <<>>
           THEN /\ ret' = RetIncomplete(MissingFields(q))
                /\ pc' = "done"
                /\ calls' = calls
           ELSE IF ~TimeParses(q.observation_time)
           THEN /\ ret' = RetRaise("ValueError")
                /\ pc' = "done"
                /\ calls' = calls
           ELSE /\ ret' = ret
                /\ pc' = "ephemeris"
                /\ calls' = Append(calls, OutboundCall("ephemeris", q.sat_number, "pending"))
    /\ UNCHANGED <<r, is_valid, response, inv, looked, results>>
    /\ UNCHANGED <<dbVars, toolVars>>

\* EphemerisRaises with the request issued a second time after a failure
EphemerisRaisesRetry ==
    /\ pc = "ephemeris"
    /\ IF Len(calls) < 2
       THEN /\ calls' = Append(Answered(calls, "raised"),
                               OutboundCall("ephemeris", req.sat_number, "pending"))
            /\ ret' = ret
            /\ pc' = "ephemeris"
       ELSE /\ calls' = Answered(calls, "raised")
            /\ ret' = RetStr(MsgTryLater)
            /\ pc' = "done"
    /\ UNCHANGED <<req, r, is_valid, response, inv, looked, results>>
    /\ UNCHANGED <<dbVars, toolVars>>

\* lines 176-177: requests.get raised a RequestException
EphemerisRaises ==
    /\ pc = "ephemeris"
    /\ calls' = Answered(calls, "raised")
    /\ ret' = RetStr(MsgTryLater)
    /\ pc' = "done"
    /\ UNCHANGED <<req, r, is_valid, response, inv, looked, results>>
    /\ UNCHANGED <<dbVars, toolVars>>

\* lines 179-194 and, when the fallback is not triggered, lines 214-254
EphemerisReturns ==
    /\ pc = "ephemeris"
    /\ \E resp \in EphemerisResponses :
        LET v == validate_position(resp, req.satellite_name, req.observation_time)
        IN  /\ r' = resp
            /\ IF v.kind = "raise"
               THEN /\ calls' = Answered(calls, "returned")
                    /\ is_valid' = is_valid
                    /\ ret' = v
                    /\ pc' = "done"
               ELSE IF FallbackTriggered(req.observation_time, v)
               THEN /\ calls' = Append(Answered(calls, "returned"),
                                       OutboundCall("names", req.sat_number, "pending"))
                    /\ is_valid' = v
                    /\ ret' = ret
                    /\ pc' = "names"
               ELSE /\ calls' = Answered(calls, "returned")
                    /\ is_valid' = v
                    /\ ret' = Finish(v, resp, req.satellite_name)
                    /\ pc' = "done"
    /\ UNCHANGED <<req, response, inv, looked, results>>
    /\ UNCHANGED <<dbVars, toolVars>>

\* lines 206-210: requests.get of the name lookup raised a RequestException
NamesRaises ==
    /\ pc = "names"
    /\ calls' = Answered(calls, "raised")
    /\ is_valid' = RetBool(FALSE)
    /\ ret' = RetStr(MsgNameNotFound)
    /\ pc' = "done"
    /\ UNCHANGED <<req, r, response, inv, looked, results>>
    /\ UNCHANGED <<dbVars, toolVars>>

\* lines 195-254: the name lookup answered
NamesReturns ==
    /\ pc = "names"
    /\ \E resp \in NamesResponses :
        LET found == LookupResult(resp, req.satellite_name)
        IN  /\ response' = resp
            /\ calls' = Answered(calls, "returned")
            /\ pc' = "done"
            /\ CASE found = "escape" ->
                      /\ is_valid' = is_valid
                      /\ ret' = RetRaise("Exception")
                 [] found = "error" ->
                      /\ is_valid' = RetBool(FALSE)
                      /\ ret' = RetStr(MsgNameNotFound)
                 [] found = "found" ->
                      /\ is_valid' = RetBool(TRUE)
                      /\ ret' = Finish(RetBool(TRUE), r, req.satellite_name)
                 [] found = "notfound" ->
                      /\ is_valid' = is_valid
                      /\ ret' = Finish(is_valid, r, req.satellite_name)
    /\ UNCHANGED <<req, r, inv, looked, results>>
    /\ UNCHANGED <<dbVars, toolVars>>

\* the outcome the batch records for a row
RowOutcome(result) == IF result.kind = "data" THEN "accepted" ELSE "rejected"

\* the batch takes the result of the row: it records the outcome under the
\* row index and goes on to the next row, which starts from fresh locals;
\* after the last row it stops.  An exception that left add_additional_data
\* is not an outcome: it ends the batch.
Return ==
    /\ pc = "done"
    /\ IF ret.kind = "raise"
       THEN /\ pc' = "stopped"
            /\ UNCHANGED <<req, r, is_valid, response, ret, calls, inv, looked, results>>
       ELSE /\ results' = Append(results, [row |-> inv, outcome |-> RowOutcome(ret)])
            /\ looked' = looked \cup {calls[i].id : i \in {j \in 1..Len(calls) : calls[j].endpoint = "names"}}
            /\ IF inv < MaxInvocations
               THEN /\ inv' = inv + 1
                    /\ pc' = "idle"
                    /\ req' = NoRequest
                    /\ r' = NoResponse
                    /\ is_valid' = RetNone
                    /\ response' = NoNames
                    /\ ret' = RetNone
                    /\ calls' = <<>>
               ELSE /\ pc' = "stopped"
                    /\ UNCHANGED <<req, r, is_valid, response, ret, calls, inv>>
    /\ UNCHANGED <<dbVars, toolVars>>

Next ==
    \/ Call
    \/ EphemerisRaises
    \/ EphemerisReturns
    \/ NamesRaises
    \/ NamesReturns
    \/ Return

Spec == Init /\ [][Next]_vars

----------------------------------------------------------------------------
(* The functions that read the database: get_stats and get_observation_list *)

\* the satellites, observation times and observers the tables are filled from
SatPool == {[sat_name |-> "ISS", sat_number |-> 25544],
            [sat_name |-> "", sat_number |-> 40000]}
ObsTimes == {"2024-04-30 00:00:00+00:00", "2024-05-02 00:00:00+00:00"}
Observers == {[location_id |-> 1, obs_email |-> "a@x.org"],
              [location_id |-> 1, obs_email |-> "b@x.org"],
              [location_id |-> 2, obs_email |-> "a@x.org"]}

\* a row of the Observation table; its id is its position in the table, and
\* date_added grows with the id
ObservationRows ==
    {[satellite_id |-> s, obs_time_utc |-> t,
      location_id |-> o.location_id, obs_email |-> o.obs_email] :
        s \in SatPool, t \in ObsTimes, o \in Observers}

ObservationTables ==
    UNION {[1..n -> ObservationRows] : n \in 0..MaxObservations}

\* the satellite of every observation is in the Satellite table
SatelliteTables(table) ==
    {S \in SUBSET SatPool : \A i \in 1..Len(table) : table[i].satellite_id \in S}

\* the lists of ids send_confirmation_email passes on: ids of the table
IdLists(table) == UNION {[1..n -> 1..Len(table)] : n \in 0..MaxIds}

\* the fields of the namedtuple stats
StatsFields == <<"satellite_count", "observation_count", "observer_count",
                 "latest_obs_list", "observer_locations">>

\* the constructor of a namedtuple takes one argument per field
stats_new(args) ==
    IF Len(args) = Len(StatsFields)
    THEN [kind |-> "stats", values |-> args]
    ELSE [kind |-> "raise", values |-> <<"TypeError">>]

\* values("location_id", "obs_email").distinct().count()
observer_count(table) ==
    Cardinality({<<table[i].location_id, table[i].obs_email>> : i \in 1..Len(table)})

\* order_by("-date_added")[:7], as ids
latest_obs_list(table) ==
    [i \in 1..Min(LatestCount, Len(table)) |-> Len(table) + 1 - i]

\* the locations with the number of observations made at each
LocationCounts(table) ==
    {[location_id |-> l,
      count |-> Cardinality({i \in 1..Len(table) : table[i].location_id = l})] :
        l \in {table[i].location_id : i \in 1..Len(table)}}

\* order_by("-count"): every order of the locations with the counts descending
observer_locations(table) ==
    LET L == LocationCounts(table)
        n == Cardinality(L)
    IN {s \in [1..n -> L] :
            /\ \A i, j \in 1..n : i # j => s[i] # s[j]
            /\ \A i, j \in 1..n : i < j => s[i].count >= s[j].count}

\* lines 42-107: the results get_stats can produce for the tables
get_stats(sats, table) ==
    IF Len(table) = 0
    THEN {stats_new(<<0, 0, 0, <<>>>>)}
    ELSE {stats_new(<<Cardinality(sats), Len(table), observer_count(table),
                      latest_obs_list(table), locs>>) :
              locs \in observer_locations(table)}

\* lines 359-370: the id, the name when there is one, the number and the time
ObservationDetails(table, obs_id) ==
    ToString(obs_id)
    \o (IF table[obs_id].satellite_id.sat_name # ""
        THEN " - " \o table[obs_id].satellite_id.sat_name ELSE "")
    \o " - " \o ToString(table[obs_id].satellite_id.sat_number)
    \o " - " \o table[obs_id].obs_time_utc

\* lines 358-373: what one id adds to list_text; the conditional expression
\* takes the whole concatenation as its first branch
ListEntry(is_html, table, obs_id) ==
    IF is_html THEN ObservationDetails(table, obs_id) \o "<br />" ELSE "\n"

RECURSIVE get_observation_list(_, _, _)
get_observation_list(is_html, table, obs_ids) ==
    IF obs_ids = <<>> THEN ""
    ELSE ListEntry(is_html, table, Head(obs_ids))
         \o get_observation_list(is_html, table, Tail(obs_ids))

\* a caller asks for the statistics of the main page
CallGetStats ==
    /\ stats' \in get_stats(satellites, observations)
    /\ UNCHANGED <<satellites, observations, listing>>
    /\ UNCHANGED <<pipelineVars, toolVars>>

\* a caller asks for the list of a confirmation email, as text or as HTML
CallGetObservationList ==
    /\ \E is_html \in BOOLEAN, obs_ids \in IdLists(observations) :
           listing' = [called |-> TRUE, is_html |-> is_html, obs_ids |-> obs_ids,
                       text |-> get_observation_list(is_html, observations, obs_ids)]
    /\ UNCHANGED <<satellites, observations, stats>>
    /\ UNCHANGED <<pipelineVars, toolVars>>

\* the tables hold any observations; the pipeline is not running
ReportInit ==
    /\ PipelineInit
    /\ observations \in ObservationTables
    /\ satellites \in SatelliteTables(observations)
    /\ stats = NoStats
    /\ listing = NoListing
    /\ ToolsIdle

ReportNext ==
    \/ CallGetStats
    \/ CallGetObservationList

ReportSpec == ReportInit /\ [][ReportNext]_vars

----------------------------------------------------------------------------
(* The export: get_csv_header and create_csv *)

\* lines 427-465
get_csv_header ==
    <<"satellite_name", "norad_cat_id", "observation_time_utc",
      "observation_time_uncertainty_sec", "apparent_magnitude",
      "apparent_magnitude_uncertainty", "observer_latitude_deg",
      "observer_longitude_deg", "observer_altitude_m", "limiting_magnitude",
      "instrument", "observing_mode", "observing_filter", "observer_orcid",
      "satellite_right_ascension_deg", "satellite_declination_deg",
      "sigma_2_ra", "sigma_ra_sigma_dec", "sigma_2_dec",
      "range_to_satellite_km", "range_to_satellite_uncertainty_km",
      "range_rate_of_satellite_km_per_sec",
      "range_rate_of_satellite_uncertainty_km_per_sec", "comments",
      "data_archive_link", "mpc_code", "sat_ra_deg_satchecker",
      "sat_dec_deg_satchecker", "range_to_sat_km_satchecker",
      "range_rate_sat_km_s_satchecker", "ddec_deg_s_satchecker",
      "dra_cosdec_deg_s_satchecker", "phase_angle_deg_satchecker",
      "alt_deg_satchecker", "az_deg_satchecker", "illuminated",
      "international_designator">>

\* lines 509-545: what each cell of a line is read from
RowAttributes ==
    <<"satellite_id.sat_name", "satellite_id.sat_number", "obs_time_utc",
      "obs_time_uncert_sec", "apparent_mag", "apparent_mag_uncert",
      "location_id.obs_lat_deg", "location_id.obs_long_deg",
      "location_id.obs_alt_m", "limiting_magnitude", "instrument",
      "obs_mode", "obs_filter", "orc_id", "sat_ra_deg", "sat_dec_deg",
      "sigma_2_ra", "sigma_ra_sigma_dec", "sigma_2_dec", "range_to_sat_km",
      "range_to_sat_uncert_km", "range_rate_sat_km_s",
      "range_rate_sat_uncert_km_s", "comments", "data_archive_link",
      "mpc_code", "sat_ra_deg_satchecker", "sat_dec_deg_satchecker",
      "range_to_sat_km_satchecker", "range_rate_sat_km_s_satchecker",
      "ddec_deg_s_satchecker", "dra_cosdec_deg_s_satchecker", "phase_angle",
      "alt_deg_satchecker", "az_deg_satchecker", "illuminated",
      "satellite_id.intl_designator">>

\* strftime("%Y-%m-%dT%H:%M:%S.%fZ") cut to milliseconds
FormatTime(t) ==
    CASE t = "2024-04-30 00:00:00+00:00" -> "2024-04-30T00:00:00.000Z"
      [] t = "2024-05-02 00:00:00+00:00" -> "2024-05-02T00:00:00.000Z"

\* the text of one cell; an attribute the tables of the model do not carry
\* is an empty cell
CsvCell(o, attr) ==
    CASE attr = "satellite_id.sat_name" -> o.satellite_id.sat_name
      [] attr = "satellite_id.sat_number" -> ToString(o.satellite_id.sat_number)
      [] attr = "obs_time_utc" -> FormatTime(o.obs_time_utc)
      [] OTHER -> ""

CsvLine(o) == [i \in 1..Len(RowAttributes) |-> CsvCell(o, RowAttributes[i])]

\* Observation.objects.all(), as ids
AllIds(table) == [i \in 1..Len(table) |-> i]

\* ExportedIds without the replacement of an empty list
ExportedIdsAsGiven(observation_list, table) == observation_list

\* lines 488-491: an empty list stands for all observations
ExportedIds(observation_list, table) ==
    IF observation_list = <<>> THEN AllIds(table) ELSE observation_list

\* lines 552-559
zipfile_name(satellite_name, all_observations) ==
    IF satellite_name # "" THEN satellite_name \o "_observations.zip"
    ELSE IF all_observations THEN "satellite_observations_all.zip"
    ELSE "satellite_observations_search_results.zip"

\* lines 469-574: the lines written to observations.csv and the archive name
create_csv(observation_list, satellite_name, table) ==
    LET ids == ExportedIds(observation_list, table)
    IN  [lines |-> <<get_csv_header>> \o [i \in 1..Len(ids) |-> CsvLine(table[ids[i]])],
         zipfile_name |-> zipfile_name(satellite_name, observation_list = <<>>)]

SearchNames == {"", "ISS"}

CallCreateCsv ==
    /\ \E observation_list \in IdLists(observations), satellite_name \in SearchNames :
           LET created == create_csv(observation_list, satellite_name, observations)
           IN  export' = [called |-> TRUE, observation_list |-> observation_list,
                          satellite_name |-> satellite_name,
                          lines |-> created.lines,
                          zipfile_name |-> created.zipfile_name]
    /\ UNCHANGED <<pipelineVars, dbVars, lookup, form, page, queue>>
    /\ UNCHANGED <<uploaded, satellite_rows, location_rows, observation_rows>>

\* the export reads neither the observer nor the location id of an
\* observation: the tables hold observations of one observer
ExportInit ==
    /\ ReportInit
    /\ \A i \in 1..Len(observations) :
           /\ observations[i].location_id = 1
           /\ observations[i].obs_email = "a@x.org"

ExportNext == CallCreateCsv

ExportSpec == ExportInit /\ [][ExportNext]_vars

----------------------------------------------------------------------------
(* The cross-field check of the upload form: SingleObservationForm.clean *)

\* the keys of cleaned_data that clean reads
CleanKeys == {"range_to_sat_km", "range_to_sat_uncert_km",
              "range_rate_sat_km_s", "range_rate_sat_uncert_km_s", "observer_email"}

\* what a FloatField leaves in cleaned_data: None for an empty input, else
\* the number
FloatInputs == {NoneV, Num(0, 0), Num(5, 0), Num(-2, 500000000)}

EmailInputs == {NoneV, Str("a@x.org"), Str("nobody")}

CleanedData ==
    {[k \in CleanKeys |-> IF k = "range_to_sat_km" THEN a
                          ELSE IF k = "range_to_sat_uncert_km" THEN b
                          ELSE IF k = "range_rate_sat_km_s" THEN c
                          ELSE IF k = "range_rate_sat_uncert_km_s" THEN d
                          ELSE e] :
        a \in FloatInputs, b \in FloatInputs, c \in FloatInputs,
        d \in FloatInputs, e \in EmailInputs}

\* re.match of line 282 on the addresses of EmailInputs
EmailMatches(v) == v = Str("a@x.org")

\* lines 268-291: the keys clean reports; a non-empty set is raised as a
\* ValidationError
clean(cleaned_data) ==
    {k \in {"range_to_sat_uncert_km"} :
        Falsy(cleaned_data["range_to_sat_km"]) /\ ~Falsy(cleaned_data["range_to_sat_uncert_km"])}
    \cup {k \in {"range_rate_sat_uncert_km_s"} :
        Falsy(cleaned_data["range_rate_sat_km_s"])
            /\ ~Falsy(cleaned_data["range_rate_sat_uncert_km_s"])}
    \cup {k \in {"observer_email"} :
        ~Falsy(cleaned_data["observer_email"]) /\ ~EmailMatches(cleaned_data["observer_email"])}

CallClean ==
    /\ \E cd \in CleanedData :
           form' = [called |-> TRUE, cleaned_data |-> cd, errors |-> clean(cd)]
    /\ UNCHANGED <<pipelineVars, dbVars, lookup, export, page, queue>>
    /\ UNCHANGED <<uploaded, satellite_rows, location_rows, observation_rows>>

FormNext == CallClean

FormSpec == Init /\ [][FormNext]_vars

----------------------------------------------------------------------------
(* The bulk-upload view: index *)

MsgSelectFile == "Please select a file to upload."

\* a line of an uploaded file, as the cells csv.reader splits it into
FileRows == {<<"satellite_name", "norad_cat_id">>, <<"ISS", "25544">>, <<>>}

\* the contents of an uploaded file: bytes that are not UTF-8, or lines
UploadedFiles ==
    {[decodes |-> FALSE, lines |-> <<>>]}
    \cup {[decodes |-> TRUE, lines |-> l] :
              l \in UNION {[1..n -> FileRows] : n \in 0..MaxLines}}

NoFile == [decodes |-> FALSE, lines |-> <<>>]

\* request.method and request.FILES
IndexRequests ==
    {[method |-> mt, has_file |-> FALSE, file |-> NoFile] : mt \in {"GET", "POST"}}
    \cup {[method |-> mt, has_file |-> TRUE, file |-> fl] :
              mt \in {"GET", "POST"}, fl \in UploadedFiles}

\* lines 36-59: what the view does with the request: "page" is a rendered
\* page, the other outcomes are exceptions that leave the view
IndexOutcome(request) ==
    IF request.method = "POST" /\ ~request.has_file THEN "page"
    ELSE IF request.method = "POST"
    THEN IF ~request.file.decodes THEN "UnicodeDecodeError"
         ELSE IF request.file.lines = <<>> THEN "StopIteration"
         ELSE "page"
    ELSE "page"

\* lines 40-52: the view reaches ProcessUpload.delay(obs)
Enqueues(request) ==
    /\ request.method = "POST"
    /\ request.has_file
    /\ request.file.decodes
    /\ request.file.lines # <<>>

\* next(io_string) and list(csv.reader(io_string)): the lines after the first
RowsAfterHeader(lines) == SubSeq(lines, 2, Len(lines))

index ==
    /\ Len(queue) < MaxTasks
    /\ \E request \in IndexRequests :
        /\ page' = [called |-> TRUE, method |-> request.method,
                    has_file |-> request.has_file, decodes |-> request.file.decodes,
                    lines |-> request.file.lines,
                    error |-> IF request.method = "POST" /\ ~request.has_file
                              THEN MsgSelectFile ELSE "",
                    outcome |-> IndexOutcome(request),
                    queued_before |-> Len(queue)]
        /\ queue' = IF Enqueues(request)
                    THEN Append(queue, [rows |-> RowsAfterHeader(request.file.lines)])
                    ELSE queue
    /\ UNCHANGED <<pipelineVars, dbVars, lookup, export, form>>
    /\ UNCHANGED <<uploaded, satellite_rows, location_rows, observation_rows>>

IndexNext == index

IndexSpec == Init /\ [][IndexNext]_vars

----------------------------------------------------------------------------
(* The single-upload view: upload *)

\* the fields SingleObservationForm declares: the keys of cleaned_data
FormFields ==
    {"sat_name", "sat_number", "obs_mode", "obs_date", "obs_date_uncert",
     "not_detected", "apparent_mag", "apparent_mag_uncert",
     "limiting_magnitude", "instrument", "observer_latitude_deg",
     "observer_longitude_deg", "observer_altitude_m", "filter",
     "observer_email", "observer_orcid", "sat_ra_deg", "sat_dec_deg",
     "sat_ra_dec_uncert_deg", "range_to_sat_km", "range_to_sat_uncert_km",
     "range_rate_sat_km_s", "range_rate_sat_uncert_km_s", "comments",
     "data_archive_link"}

\* lines 312-338: the keys of cleaned_data the view reads, in order
CleanedKeysRead ==
    <<"observer_orcid", "sat_name", "sat_number", "obs_mode", "obs_date",
      "obs_date_uncert", "apparent_mag", "apparent_mag_uncert", "instrument",
      "filter", "observer_email", "observer_latitude_deg",
      "observer_longitude_deg", "observer_altitude_m", "sat_ra_deg",
      "sat_ra_uncert_deg", "sat_dec_deg", "sat_dec_uncert_deg",
      "range_to_sat_km", "range_to_sat_uncert_km", "range_rate_sat_km_s",
      "range_rate_sat_uncert_km_s", "comments", "data_archive_link">>

\* form.cleaned_data[key] raises KeyError for a key that is no field
KeyErrorAt ==
    {i \in 1..Len(CleanedKeysRead) : CleanedKeysRead[i] \notin FormFields}

\* the inputs of a submitted form that the tables are keyed on; the other
\* required fields are filled in and pass their validators
UploadForms ==
    {[sat_name |-> a, sat_number |-> b, obs_date |-> c, lat |-> d, long |-> e, alt |-> g] :
        a \in {"", "ISS"}, b \in {NoneV, Num(25544, 0)},
        c \in {"yesterday", "2024-04-30T00:00:00Z"},
        d \in {NoneV, Num(0, 0), Num(33, 0)}, e \in {Num(0, 0), Num(-117, 0)},
        g \in {NoneV, Num(100, 0)}}

UploadRequests == [method : {"GET", "POST"}, form : UploadForms]

\* validate_date: the regular expression of forms.py line 48 on the dates of
\* UploadForms
validate_date(value) == value = "2024-04-30T00:00:00Z"

\* form.is_valid(): the required fields are filled in and validate
form_is_valid(fm) ==
    /\ fm.sat_name # ""
    /\ fm.sat_number # NoneV
    /\ validate_date(fm.obs_date)
    /\ fm.lat # NoneV /\ fm.long # NoneV /\ fm.alt # NoneV

\* the rows of a table that have the key
Matching(table, key) == {i \in 1..Len(table) : table[i] = key}

\* objects.update_or_create(**key, defaults=...): the table afterwards; with
\* one match the row is updated in place, with none it is created
update_or_create(table, key) ==
    IF Matching(table, key) = {} THEN Append(table, key) ELSE table

\* update_or_create raises MultipleObjectsReturned for more than one match
MultipleObjects(table, key) == Cardinality(Matching(table, key)) > 1

SatelliteKey(fm) == [sat_name |-> fm.sat_name, sat_number |-> fm.sat_number]
LocationKey(fm) == [obs_lat_deg |-> fm.lat, obs_long_deg |-> fm.long, obs_alt_m |-> fm.alt]
ObservationKey(fm) ==
    [obs_time_utc |-> fm.obs_date, satellite_id |-> SatelliteKey(fm),
     location_id |-> LocationKey(fm)]

\* lines 307-428: how the request ends
UploadOutcome(request) ==
    IF request.method # "POST" THEN "form"
    ELSE IF ~form_is_valid(request.form) THEN "form errors"
    ELSE IF KeyErrorAt # {} THEN "KeyError"
    ELSE IF \/ MultipleObjects(satellite_rows, SatelliteKey(request.form))
            \/ MultipleObjects(location_rows, LocationKey(request.form))
            \/ MultipleObjects(observation_rows, ObservationKey(request.form))
    THEN "MultipleObjectsReturned"
    ELSE "Upload successful"

upload ==
    \E request \in UploadRequests :
        /\ uploaded' = [called |-> TRUE, method |-> request.method,
                        valid |-> form_is_valid(request.form),
                        outcome |-> UploadOutcome(request),
                        sat_name |-> request.form.sat_name,
                        sat_number |-> request.form.sat_number,
                        lat |-> request.form.lat, long |-> request.form.long,
                        alt |-> request.form.alt,
                        repeated |-> /\ uploaded.called
                                     /\ uploaded.method = request.method
                                     /\ uploaded.valid = form_is_valid(request.form)
                                     /\ uploaded.sat_name = request.form.sat_name
                                     /\ uploaded.sat_number = request.form.sat_number
                                     /\ uploaded.lat = request.form.lat
                                     /\ uploaded.long = request.form.long
                                     /\ uploaded.alt = request.form.alt,
                        rows_before |-> <<Len(satellite_rows), Len(location_rows),
                                          Len(observation_rows)>>]
        /\ IF UploadOutcome(request) = "Upload successful"
           THEN /\ satellite_rows' = update_or_create(satellite_rows, SatelliteKey(request.form))
                /\ location_rows' = update_or_create(location_rows, LocationKey(request.form))
                /\ observation_rows' =
                       update_or_create(observation_rows, ObservationKey(request.form))
           ELSE UNCHANGED <<satellite_rows, location_rows, observation_rows>>
        /\ UNCHANGED <<pipelineVars, dbVars, lookup, export, form, page, queue>>

UploadNext == upload

UploadSpec == Init /\ [][UploadNext]_vars

----------------------------------------------------------------------------
(* The lookups of a single name or NORAD id: get_satellite_name, get_norad_id *)

\* an exception that left a function
Raised(e) == [k |-> "raise", s |-> e, n |-> 0, f |-> 0]

\* a record of the two lookup endpoints
VersionItem(name, norad_id, current) ==
    [name |-> name, norad_id |-> norad_id, is_current_version |-> current]

VersionItems ==
    {VersionItem(a, b, c) : a \in {Str("ISS"), Str("ZARYA")},
                            b \in {Num(25544, 0), Num(40000, 0)},
                            c \in BOOLEAN}

VersionLists == UNION {[1..n -> VersionItems] : n \in 1..MaxItems}

\* what requests.get produces: it raises, or it returns a status and a body;
\* the body is not JSON ("bad"), null, [], [[]] ("nested") or a list of records
LookupResponse(raised, status, kind, items) ==
    [raised |-> raised, status_code |-> status, kind |-> kind, items |-> items]

LookupStatuses == {StatusOK, 404, 500}

LookupResponses ==
    {LookupResponse(TRUE, 0, "null", <<>>)}
    \cup {LookupResponse(FALSE, st, k, <<>>) :
              st \in LookupStatuses, k \in {"bad", "null", "empty", "nested"}}
    \cup {LookupResponse(FALSE, st, "list", l) :
              st \in LookupStatuses, l \in VersionLists}

\* response.raise_for_status() raises HTTPError for a 4xx or 5xx status
raise_for_status(resp) == resp.status_code >= 400

\* the positions of the records with is_current_version True
CurrentVersions(items) == {i \in 1..Len(items) : items[i].is_current_version}

\* the loop of both functions: the field of the first current record, or the
\* implicit None at the end of the function
FirstCurrent(items, field) ==
    IF CurrentVersions(items) = {} THEN NoneV
    ELSE items[CHOOSE i \in CurrentVersions(items) :
                   \A j \in CurrentVersions(items) : i <= j][field]

\* lines 597-610
get_satellite_name(resp) ==
    IF resp.raised \/ raise_for_status(resp) THEN NoneV
    ELSE IF resp.kind = "bad" THEN NoneV
    ELSE IF resp.kind \in {"null", "empty", "nested"} THEN NoneV
    ELSE FirstCurrent(resp.items, "name")

\* lines 632-647: `not data` is false for [[]], and item["is_current_version"]
\* on the inner list is a TypeError, which the except clause does not catch
get_norad_id(resp) ==
    IF resp.raised \/ raise_for_status(resp) THEN NoneV
    ELSE IF resp.kind = "bad" THEN NoneV
    ELSE IF resp.kind \in {"null", "empty"} THEN NoneV
    ELSE IF resp.kind = "nested" THEN Raised("TypeError")
    ELSE FirstCurrent(resp.items, "norad_id")

LookupCalled(fn, resp, result) ==
    [fn |-> fn, raised |-> resp.raised, status_code |-> resp.status_code,
     kind |-> resp.kind, items |-> resp.items, result |-> result]

CallGetSatelliteName ==
    /\ \E resp \in LookupResponses :
           lookup' = LookupCalled("get_satellite_name", resp, get_satellite_name(resp))
    /\ UNCHANGED <<pipelineVars, dbVars, export, form, page, queue>>
    /\ UNCHANGED <<uploaded, satellite_rows, location_rows, observation_rows>>

CallGetNoradId ==
    /\ \E resp \in LookupResponses :
           lookup' = LookupCalled("get_norad_id", resp, get_norad_id(resp))
    /\ UNCHANGED <<pipelineVars, dbVars, export, form, page, queue>>
    /\ UNCHANGED <<uploaded, satellite_rows, location_rows, observation_rows>>

LookupNext ==
    \/ CallGetSatelliteName
    \/ CallGetNoradId

LookupSpec == Init /\ [][LookupNext]_vars

----------------------------------------------------------------------------
(* Observations on a state, stated from the raw inputs and responses *)

Done == pc \in {"done", "stopped"}

CallsTo(endpoint) == {i \in 1..Len(calls) : calls[i].endpoint = endpoint}

\* the ephemeris query was issued and answered with a response
EphemerisAnswered == calls # <<>> /\ calls[1].result = "returned"

LookupIssued == CallsTo("names") # {}

\* the name lookup was issued and answered with a response
LookupAnswered == \E i \in CallsTo("names") : calls[i].result = "returned"

\* the name lookup was issued and requests.get raised
LookupRaised == \E i \in CallsTo("names") : calls[i].result = "raised"

\* the ephemeris response is status 200 with at least one record
HasFirstRecord == EphemerisAnswered /\ r.status_code = 200 /\ r.json /\ "data" \in r.keys /\ r.data # <<>>

\* days from the requested time to the TLE epoch of the first record
EpochOffset == r.data[1][7].n - req.observation_time.n

BeforeCutoff == req.observation_time.n < 60431

\* the answer of the lookup is a non-empty list of records
LookupNonEmpty ==
    /\ LookupAnswered
    /\ response.status_code = 200
    /\ response.kind = "list"
    /\ response.items # <<>>
    /\ response.items[1].isobj

LookupHasName ==
    \E i \in 1..Len(response.items) :
        response.items[i].hasname /\ response.items[i].name = req.satellite_name

----------------------------------------------------------------------------
(* Claims *)

\* C1: whatever the inputs and whatever the two endpoints do,
\* add_additional_data returns a value and no exception leaves it.
C1_NoExceptionEscapes == Done => ret.kind # "raise"

\* C2: when the fallback's name lookup fails at transport level, answers with
\* a status other than 200, or answers with an empty or absent result, the
\* function returns the message "Satellite name not found".
C2_LookupFailureIsRejection ==
    (Done /\ (\/ LookupRaised
              \/ LookupAnswered /\ response.status_code # 200
              \/ LookupAnswered /\ response.status_code = 200
                 /\ response.kind \in {"null", "list"} /\ ~LookupNonEmpty))
        => ret = RetStr(MsgNameNotFound)

\* C3: every observation whose ephemeris response has a status other than
\* 200 ends with the transport-failure rejection, before or after the cutoff
\* and whatever the name lookup returns.
C3_Non200IsTransportFailure ==
    (Done /\ EphemerisAnswered /\ r.status_code # 200) => ret = RetStr(MsgVerify)

\* C4 as stated: a first record whose TLE epoch is more than 14 days from the
\* requested time, in either direction, makes the validator outcome Archival.
C4_ArchivalEitherDirection ==
    (HasFirstRecord /\ (EpochOffset > 14 \/ EpochOffset < -14))
        => is_valid = RetStr(MsgArchival)

\* C4 as amended: a first record whose TLE epoch is more than 14 days after
\* the requested time makes the validator outcome Archival, whatever the
\* record's name and altitude are; an epoch more than 14 days before the
\* requested time does not.
C4_ArchivalWhenEpochLater ==
    /\ (HasFirstRecord /\ EpochOffset > 14) => is_valid = RetStr(MsgArchival)
    /\ (HasFirstRecord /\ EpochOffset < -14) => is_valid # RetStr(MsgArchival)

\* C4 witness: an archival outcome for a record whose name differs from the
\* submitted one and whose altitude is below -5.
C4_Witness ==
    /\ HasFirstRecord
    /\ EpochOffset > 14
    /\ req.satellite_name # Str("")
    /\ r.data[1][1] # req.satellite_name
    /\ r.data[1][10].n < -5
    /\ is_valid = RetStr(MsgArchival)

\* the request falls under one of the cases of C5
InputRejected ==
    \/ req.sat_number = NoneV
    \/ req.observation_time = NoneV
    \/ req.latitude.k = "num" /\ (req.latitude.n < -90 \/ req.latitude.n > 90
                                    \/ (req.latitude.n = 90 /\ req.latitude.f > 0))
    \/ req.longitude.k = "num" /\ (req.longitude.n < -180 \/ req.longitude.n > 180
                                     \/ (req.longitude.n = 180 /\ req.longitude.f > 0))
    \/ req.altitude = NoneV

\* C5: a request with a missing catalog number, a missing observation time, a
\* latitude outside [-90, 90], a longitude outside [-180, 180] or an absent
\* altitude gets the input-incomplete rejection and no outbound call is made.
C5_IncompleteInputNoCall ==
    (pc # "idle" /\ InputRejected)
        => /\ Done
           /\ ret.kind = "str"
           /\ ret.s = MsgIncomplete
           /\ ret.missing # <<>>
           /\ calls = <<>>

\* C5 witness: a request rejected for its longitude alone.
C5_Witness ==
    /\ Done
    /\ req.sat_number = Num(25544, 0)
    /\ req.observation_time.k = "date"
    /\ req.latitude = Num(90, 0)
    /\ req.longitude = Num(180, 1)
    /\ req.altitude = Num(0, 0)
    /\ ret = RetIncomplete(<<"longitude">>)
    /\ calls = <<>>

\* C6: a non-archival observation with status 200, a record, and a submitted
\* name that is empty or equal to the record's name ends below-horizon when
\* the altitude is < -5 and Valid otherwise, before the cutoff as well as
\* after it and whatever the name lookup returns.
C6_HorizonDecidesOutcome ==
    (Done /\ HasFirstRecord /\ EpochOffset <= 14
          /\ (req.satellite_name = Str("") \/ r.data[1][1] = req.satellite_name))
        => IF r.data[1][10].n < -5
           THEN ret = RetStr(MsgBelowHorizon)
           ELSE ret.kind = "data" /\ ret.data # ArchivalData(req.satellite_name)

\* the fields list the mapper zips with data[0]
ListedFields == IF "fields" \in r.keys THEN r.fields ELSE <<>>

\* the positions at which key is listed and has a value
ListedAt(key) ==
    {i \in 1..Len(ListedFields) : i <= Len(r.data[1]) /\ ListedFields[i] = key}

\* the primary validation returned the name-mismatch rejection
PrimaryNameMismatch ==
    /\ HasFirstRecord
    /\ EpochOffset <= 14
    /\ req.satellite_name # Str("")
    /\ r.data[1][1] # req.satellite_name

\* C7: before the cutoff, when the primary validation returned name-mismatch
\* and the lookup succeeds with a record whose name equals the submitted
\* name, the final outcome is Valid and an enriched record is returned.
C7_RenamedSatelliteAccepted ==
    (Done /\ BeforeCutoff /\ PrimaryNameMismatch /\ LookupNonEmpty /\ LookupHasName)
        => /\ is_valid = RetBool(TRUE)
           /\ ret.kind = "data"
           /\ \A i \in ListedAt("name") : ret.data["satellite_name"] = r.data[1][i]

\* C7 witness: a mismatching record accepted through the lookup.
C7_Witness ==
    /\ Done
    /\ BeforeCutoff
    /\ PrimaryNameMismatch
    /\ LookupNonEmpty
    /\ LookupHasName
    /\ ret.kind = "data"

\* C8: when the fallback ran, the lookup answered a non-empty result and no
\* returned record has the submitted name, the final outcome is the outcome
\* of the Position Validator: its rejection, or Valid with an enriched record.
C8_NoMatchKeepsOutcome ==
    (Done /\ LookupNonEmpty /\ ~LookupHasName)
        => LET v == validate_position(r, req.satellite_name, req.observation_time)
           IN  /\ is_valid = v
               /\ IF v.kind = "str" THEN ret = v ELSE v = RetBool(TRUE) /\ ret.kind = "data"

\* C8 witness: a name-mismatch rejection that stands after a lookup without
\* the submitted name.
C8_Witness ==
    /\ Done
    /\ LookupNonEmpty
    /\ ~LookupHasName
    /\ PrimaryNameMismatch
    /\ ret = RetStr(MsgNameMismatch)

\* the four conditions of C9 for issuing the name lookup
LookupDue ==
    /\ MissingFields(req) = <<>>
    /\ EphemerisAnswered
    /\ BeforeCutoff
    /\ LET v == validate_position(r, req.satellite_name, req.observation_time)
       IN  v.kind # "raise" /\ v # RetStr(MsgArchival)

\* C9: the name lookup is issued if and only if the input check passed, the
\* ephemeris call returned a response, the observation time is strictly
\* before the cutoff and the validator produced an outcome other than
\* Archival; it is issued once, after the ephemeris query, for the catalog
\* number of this invocation, whatever earlier invocations looked up.
C9_LookupIssuedExactlyWhenDue ==
    /\ Cardinality(CallsTo("names")) <= 1
    /\ \A i \in CallsTo("names") :
          /\ i = 2
          /\ calls[1].endpoint = "ephemeris"
          /\ calls[1].result = "returned"
          /\ calls[i].id = req.sat_number
    /\ pc \in {"names", "done"} => (LookupIssued <=> LookupDue)

\* C9 witness: a second invocation looks up a catalog number that an earlier
\* invocation already looked up.
C9_Witness ==
    /\ inv = 2
    /\ Done
    /\ req.sat_number \in looked
    /\ LookupIssued
    /\ LookupDue

\* C10: no call is retried: one invocation issues at most one ephemeris query
\* and at most one name lookup, and after the ephemeris request raised the
\* function returns the try-again-later message without another call.
C10_NoRetry ==
    /\ Cardinality(CallsTo("ephemeris")) <= 1
    /\ Cardinality(CallsTo("names")) <= 1
    /\ \A i \in CallsTo("ephemeris") :
          calls[i].result = "raised"
              => Done /\ ret = RetStr(MsgTryLater) /\ Len(calls) = 1

\* C10 witness: the ephemeris request raised and the invocation is over.
C10_Witness ==
    /\ Done
    /\ Len(calls) = 1
    /\ calls[1].endpoint = "ephemeris"
    /\ calls[1].result = "raised"
    /\ ret = RetStr(MsgTryLater)

\* validate_position has returned and the name lookup has not changed is_valid
ValidatorSpoke == pc = "names" \/ (Done /\ EphemerisAnswered /\ ~LookupIssued)

\* C11: validate_position checks status, empty records, archival, name and
\* horizon in that order: a non-archival record whose name differs from a
\* non-empty submitted name is a name mismatch even when its altitude is below
\* -5, and with an empty submitted name the outcome follows the altitude alone.
C11_NameBeforeHorizon ==
    (ValidatorSpoke /\ HasFirstRecord /\ EpochOffset <= 14)
        => /\ (req.satellite_name # Str("") /\ r.data[1][1] # req.satellite_name)
                  => is_valid = RetStr(MsgNameMismatch)
           /\ req.satellite_name = Str("")
                  => is_valid = (IF r.data[1][10].n < -5 THEN RetStr(MsgBelowHorizon)
                                 ELSE RetBool(TRUE))

\* C11 witness: a name mismatch reported for a record that is also below the
\* horizon.
C11_Witness ==
    /\ ValidatorSpoke
    /\ HasFirstRecord
    /\ EpochOffset <= 14
    /\ req.satellite_name # Str("")
    /\ r.data[1][1] # req.satellite_name
    /\ r.data[1][10].n < -5
    /\ is_valid = RetStr(MsgNameMismatch)

\* C12: a response of status 200 without position records gives the
\* not-visible rejection; validate_position returns it without reading a
\* record, whatever the submitted name and time.
C12_NoRecordsNotVisible ==
    ((pc = "names" \/ (Done /\ EphemerisAnswered /\ ~LookupIssued))
     /\ r.status_code = 200 /\ r.json /\ ("data" \notin r.keys \/ r.data = <<>>))
        => /\ is_valid = RetStr(MsgNotVisible)
           /\ ret.kind # "raise"
           /\ pc = "done" => ret = RetStr(MsgNotVisible)

\* C12 witness: the not-visible rejection returned for a named satellite and
\* an empty data list.
C12_Witness ==
    /\ Done
    /\ EphemerisAnswered
    /\ r.status_code = 200
    /\ "data" \in r.keys
    /\ r.data = <<>>
    /\ req.satellite_name # Str("")
    /\ ret = RetStr(MsgNotVisible)

\* C13: for an Archival outcome add_additional_data returns a record whose
\* ten numeric fields, illuminated and international designator are None and
\* whose satellite_name is the submitted name; nothing of the payload is in it.
C13_ArchivalRecordIsEmpty ==
    (Done /\ HasFirstRecord /\ EpochOffset > 14)
        => /\ ret.kind = "data"
           /\ \A x \in SatCheckerData \ {"satellite_name"} : ret.data[x] = NoneV
           /\ ret.data["satellite_name"] = req.satellite_name

\* C13 witness: an archival record returned under a submitted name that is
\* not the name of the payload.
C13_Witness ==
    /\ Done
    /\ HasFirstRecord
    /\ EpochOffset > 14
    /\ req.satellite_name # Str("")
    /\ r.data[1][1] # req.satellite_name
    /\ ret.kind = "data"
    /\ ret.data["satellite_name"] = req.satellite_name

\* the pipeline ended Valid: an enriched record that is not the archival one
EndedValid == Done /\ ret.kind = "data" /\ HasFirstRecord /\ EpochOffset <= 14

\* C14: in a Valid outcome every enriched field is the value listed under its
\* field name in fields / data[0]: a numeric field that is not listed is 0,
\* an unlisted illuminated, name or designator is None, and unknown fields or
\* another order of the fields change nothing.
C14_FieldsReadByName ==
    EndedValid =>
        \A x \in SatCheckerData :
            /\ \A i \in ListedAt(SourceKey(x)) :
                  ret.data[x] = (IF x \in NumericFields THEN Round7(r.data[1][i])
                                 ELSE r.data[1][i])
            /\ ListedAt(SourceKey(x)) = {}
                  => ret.data[x] = (IF x \in NumericFields THEN Num(0, 0) ELSE NoneV)

\* C14 witness: a Valid outcome for a response that lists altitude and
\* azimuth in the other order.
C14_Witness ==
    /\ EndedValid
    /\ ListedFields = SwapAltAz(RecordFields)
    /\ ret.data["alt_deg"] = r.data[1][11]
    /\ ret.data["alt_deg"] # r.data[1][10]

\* the distance in billionths between two modelled numbers
Billionths(v, w) ==
    LET d == (w.n - v.n) * 1000000000 + (w.f - v.f)
    IN  IF d < 0 THEN 0 - d ELSE d

\* C15: every numeric enriched field of a Valid outcome is the response value
\* rounded to 7 decimal places: a multiple of 10^-7 at most half of 10^-7
\* away from it, and the value itself when it has no more than 7 decimals.
C15_RoundedToSevenDecimals ==
    EndedValid =>
        \A x \in NumericFields : \A i \in ListedAt(SourceKey(x)) :
            /\ ret.data[x].k = "num"
            /\ ret.data[x].f % 100 = 0
            /\ ret.data[x].n - r.data[1][i].n \in {0, 1}
            /\ Billionths(r.data[1][i], ret.data[x]) <= 50
            /\ r.data[1][i].f % 100 = 0 => ret.data[x] = r.data[1][i]

\* C15 witness: 12.345678912 is emitted as 12.3456789 and 420.123456789 as
\* 420.1234568.
C15_Witness ==
    /\ EndedValid
    /\ \E i \in ListedAt("phase_angle_deg") : r.data[1][i] = Num(12, 345678912)
    /\ ret.data["phase_angle"] = Num(12, 345678900)
    /\ \E i \in ListedAt("range_km") : r.data[1][i] = Num(420, 123456789)
    /\ ret.data["range_to_sat"] = Num(420, 123456800)

\* the batch has stopped: after its last row, or at an exception
BatchStopped == pc = "stopped"

\* the returned record carries fields computed from the ephemeris payload
Enriched == ret.kind = "data" /\ ret.data # ArchivalData(req.satellite_name)

C18_TwoTerminalStates ==
    Done =>
        /\ ret.kind \in {"data", "str"}
        /\ Enriched => is_valid = RetBool(TRUE)

\* get_stats was called on a database without observations
StatsOfEmptyDatabase == stats # NoStats /\ observations = <<>>

\* C19: with zero observations get_stats returns a stats object whose
\* counts are 0 and whose lists are empty; it does not fail.
C19_ZeroObservationsZeroStats ==
    StatsOfEmptyDatabase =>
        /\ stats.kind = "stats"
        /\ \A i \in 1..3 : stats.values[i] = 0
        /\ \A i \in 4..5 : stats.values[i] = <<>>

\* the line separator of the two formats
LineSeparator(is_html) == IF is_html THEN "<br />" ELSE "\n"

\* the list as the docstring describes it: per id the details of the
\* observation, then the separator of the format
RECURSIVE DescribedList(_, _, _)
DescribedList(is_html, table, obs_ids) ==
    IF obs_ids = <<>> THEN ""
    ELSE ObservationDetails(table, Head(obs_ids)) \o LineSeparator(is_html)
         \o DescribedList(is_html, table, Tail(obs_ids))

\* C20: in both formats the list holds, for every id of obs_ids in order,
\* the id, the satellite number and the observation time of the observation
\* (and the satellite name when it is not empty); only the line separator
\* differs between the text and the HTML format.
C20_BothFormatsListDetails ==
    listing.called =>
        listing.text = DescribedList(listing.is_html, observations, listing.obs_ids)

\* the validity flag of add_additional_data is True when the function ends
FinalFlagTrue == Done /\ is_valid = RetBool(TRUE)

\* C24: with a true final validity flag add_additional_data returns a
\* SatCheckerData record, and no invocation returns a bare boolean.
C24_RecordWhenFlagTrue ==
    /\ FinalFlagTrue => ret.kind = "data"
    /\ Done => ret.kind # "bool"

\* the request has a catalog number and a timestamp, a latitude in [-90, 90],
\* a longitude in [-180, 180] and an altitude >= 0
InRangeRequest ==
    /\ pc # "idle"
    /\ req.sat_number.k = "num" /\ req.sat_number.n > 0
    /\ req.observation_time.k = "date"
    /\ InClosedRange(req.latitude, -90, 90)
    /\ InClosedRange(req.longitude, -180, 180)
    /\ req.altitude.k = "num" /\ req.altitude.n >= 0

\* C25: a request with catalog number and observation time, a latitude in
\* [-90, 90], a longitude in [-180, 180] and an altitude >= 0 is not rejected
\* as incomplete, and the ephemeris query is issued for it.
C25_InRangeRequestPasses ==
    InRangeRequest =>
        /\ ~(ret.kind = "str" /\ ret.s = MsgIncomplete)
        /\ CallsTo("ephemeris") # {}

\* a Valid outcome that the validator alone decided
ValidWithoutLookup == EndedValid /\ ~LookupIssued

\* C26: in a Valid outcome the mapper returns the values the validator
\* tested, whatever the order of fields: alt_deg is the altitude that passed
\* the horizon check, so it is not below -5, and satellite_name is the record
\* name that was compared with the submitted name.
C26_MapperReadsWhatWasValidated ==
    ValidWithoutLookup =>
        /\ ret.data["alt_deg"] = Round7(r.data[1][AltIdx])
        /\ ~BelowHorizon(ret.data["alt_deg"])
        /\ ret.data["satellite_name"] = r.data[1][NameIdx]

\* the fields of the input check, in the order of the tests
CheckedFields == <<"sat_number", "observation_time", "latitude", "longitude", "altitude">>

\* the fields of the request that fail their test
FailedFields ==
    {f \in {"sat_number", "observation_time"} : Falsy(req[f])}
    \cup {f \in {"latitude"} : Falsy(req[f]) \/ ~InClosedRange(req[f], -90, 90)}
    \cup {f \in {"longitude"} : Falsy(req[f]) \/ ~InClosedRange(req[f], -180, 180)}
    \cup {f \in {"altitude"} : req[f] = NoneV}

IsFailedField(f) == f \in FailedFields

\* the function returned the input-incomplete message
IncompleteReturned == Done /\ ret.kind = "str" /\ ret.s = MsgIncomplete

\* C27: the input-incomplete message is returned exactly when some field
\* fails its test, and it names the failing fields, each once, in the order
\* sat_number, observation_time, latitude, longitude, altitude.
C27_MessageNamesFailedFields ==
    pc # "idle" =>
        /\ IncompleteReturned <=> FailedFields # {}
        /\ IncompleteReturned => ret.missing = SelectSeq(CheckedFields, IsFailedField)

\* C27 witness: a message that names three fields, skipping two between them.
C27_Witness ==
    /\ IncompleteReturned
    /\ ret.missing = <<"sat_number", "latitude", "altitude">>
    /\ req.longitude = Num(180, 0)

\* one of the two lookup functions was called
LookupCalledAny == lookup.fn # ""

\* the field the called function returns
LookupField == IF lookup.fn = "get_satellite_name" THEN "name" ELSE "norad_id"

\* the request came back with status 200 and a list of records of which at
\* least one is the current version
LookupHasCurrent ==
    /\ ~lookup.raised
    /\ lookup.status_code = StatusOK
    /\ lookup.kind = "list"
    /\ \E i \in 1..Len(lookup.items) : lookup.items[i].is_current_version

\* C21: get_satellite_name and get_norad_id return the name / NORAD id of
\* the first record whose is_current_version is true, and return None without
\* raising when the request fails, the status is not 2xx, the result is empty
\* or no record is the current version.
C21_FirstCurrentOrNone ==
    LookupCalledAny =>
        IF LookupHasCurrent
        THEN \E i \in 1..Len(lookup.items) :
                /\ lookup.items[i].is_current_version
                /\ \A j \in 1..(i - 1) : ~lookup.items[j].is_current_version
                /\ lookup.result = lookup.items[i][LookupField]
        ELSE lookup.result = NoneV

\* the ids create_csv has to export: the given ones, or all for an empty list
ToExport ==
    IF export.observation_list = <<>>
    THEN [i \in 1..Len(observations) |-> i]
    ELSE export.observation_list

\* C22: create_csv exports exactly the observations it was given, an empty
\* list standing for all observations of the database; the archive is named
\* after the satellite when a name is given, else "all" for an empty list and
\* "search_results" otherwise; every data line has as many values as the
\* header has columns.
C22_ExportsGivenObservations ==
    export.called =>
        /\ Len(export.lines) = Len(ToExport) + 1
        /\ \A i \in 1..Len(ToExport) :
              /\ export.lines[i + 1][1] = observations[ToExport[i]].satellite_id.sat_name
              /\ export.lines[i + 1][2] = ToString(observations[ToExport[i]].satellite_id.sat_number)
              /\ export.lines[i + 1][3] = FormatTime(observations[ToExport[i]].obs_time_utc)
        /\ export.zipfile_name =
              (IF export.satellite_name # ""
               THEN export.satellite_name \o "_observations.zip"
               ELSE IF export.observation_list = <<>>
               THEN "satellite_observations_all.zip"
               ELSE "satellite_observations_search_results.zip")
        /\ \A i \in 2..Len(export.lines) : Len(export.lines[i]) = Len(export.lines[1])

\* C22 witness: an empty list and no name, over a database of two
\* observations of different satellites: both are exported under "all".
C22_Witness ==
    /\ export.called
    /\ export.observation_list = <<>>
    /\ export.satellite_name = ""
    /\ Len(observations) = 2
    /\ observations[1].satellite_id # observations[2].satellite_id
    /\ Len(export.lines) = 3
    /\ export.zipfile_name = "satellite_observations_all.zip"

\* the form supplied a value for the key
Supplied(key) == form.cleaned_data[key] # NoneV

\* C29: clean reports range_to_sat_uncert_km exactly when an uncertainty is
\* supplied and range_to_sat_km is not, and range_rate_sat_uncert_km_s exactly
\* when an uncertainty is supplied and range_rate_sat_km_s is not; a form with
\* a value, whatever the number, and its uncertainty passes the check.
C29_UncertaintyRequiresValue ==
    form.called =>
        /\ "range_to_sat_uncert_km" \in form.errors
              <=> (Supplied("range_to_sat_uncert_km") /\ ~Supplied("range_to_sat_km"))
        /\ "range_rate_sat_uncert_km_s" \in form.errors
              <=> (Supplied("range_rate_sat_uncert_km_s") /\ ~Supplied("range_rate_sat_km_s"))

\* the tasks the last request to the index view added to the queue
TasksAdded == Len(queue) - page.queued_before

\* C28: a POST without a file answers with the select-a-file error and
\* enqueues nothing; a POST with a file enqueues exactly one task that carries
\* the lines after the first, in file order; any other request enqueues
\* nothing.
C28_OneTaskPerUploadedFile ==
    page.called =>
        IF page.method = "POST" /\ ~page.has_file
        THEN page.error = MsgSelectFile /\ TasksAdded = 0
        ELSE IF page.method = "POST"
        THEN /\ TasksAdded = 1
             /\ queue[Len(queue)].rows = SubSeq(page.lines, 2, Len(page.lines))
        ELSE TasksAdded = 0

\* the upload view handled a POST whose form is valid
ValidSubmission == uploaded.called /\ uploaded.method = "POST" /\ uploaded.valid

\* no two rows of the table are equal in the key
NoTwoShareKey(table) ==
    \A i, j \in 1..Len(table) : table[i] = table[j] => i = j

\* C23: the upload view creates or updates by natural key: after a valid
\* submission there is exactly one Satellite row with its (name, catalog
\* number) and exactly one Location row with its (lat, long, alt), no two rows
\* ever share a key, and a second, identical submission leaves the numbers of
\* Satellite, Location and Observation rows as they were.
C23_CreateOrUpdateByKey ==
    /\ NoTwoShareKey(satellite_rows)
    /\ NoTwoShareKey(location_rows)
    /\ ValidSubmission =>
          /\ Cardinality(Matching(satellite_rows,
                 [sat_name |-> uploaded.sat_name, sat_number |-> uploaded.sat_number])) = 1
          /\ Cardinality(Matching(location_rows,
                 [obs_lat_deg |-> uploaded.lat, obs_long_deg |-> uploaded.long,
                  obs_alt_m |-> uploaded.alt])) = 1
    /\ (ValidSubmission /\ uploaded.repeated) =>
          uploaded.rows_before = <<Len(satellite_rows), Len(location_rows),
                                   Len(observation_rows)>>

====
